---- MODULE Spec2Model ----
(***************************************************************************)
(* Model of libscanbuild/arguments.py: the command-line parser of          *)
(* analyze-build, its normalisation and validation passes, the             *)
(* comma-separated accumulating action and the two checker printers.       *)
(*                                                                         *)
(* Python strings are sequences of one-character strings, so that          *)
(* str.split, os.path.abspath, str.format and sorted() are computed and    *)
(* not assumed.                                                            *)
(***************************************************************************)
EXTENDS Integers, Sequences, FiniteSets, TLC

VARIABLES argv, args, fs, pc, status, stdout, stderr, trace, catalog

vars == <<argv, args, fs, pc, status, stdout, stderr, trace, catalog>>

\* ------------------------------------------------------------------ bounds
\* number of command-line options given to one invocation
MaxArgs == 3
\* number of checker names the analyzer may report
MaxCheckers == 4
\* length of an exclude list handed to the normaliser on its own
MaxExcludes == 3

\* ------------------------------------------------------- python values
\* Python's None, and a list value, for the attributes that may be either
None == [isNone |-> TRUE, list |-> <<>>]

List(l) == [isNone |-> FALSE, list |-> l]

\* "".join / '/'.join(comps)
RECURSIVE str_join(_, _)
str_join(sep, comps) ==
    IF comps = <<>> THEN <<>>
    ELSE IF Len(comps) = 1 THEN comps[1]
    ELSE comps[1] \o sep \o str_join(sep, Tail(comps))

\* str.split(sep) for a one-character separator: always at least one piece,
\* empty pieces are kept
RECURSIVE str_split(_, _)
str_split(s, sep) ==
    IF \A i \in 1..Len(s) : s[i] # sep THEN <<s>>
    ELSE LET i == CHOOSE k \in 1..Len(s) :
                     s[k] = sep /\ \A j \in 1..(k - 1) : s[j] # sep
         IN  <<SubSeq(s, 1, i - 1)>> \o str_split(SubSeq(s, i + 1, Len(s)), sep)

\* s * n for a one-character string s
Repeat(c, n) == [i \in 1..n |-> c]

\* code-point order of the characters that occur in checker names
CharOrder ==
    <<" ", "+", ",", ".", "/",
      "A", "B", "C", "E", "L", "N", "T", "V",
      "a", "b", "c", "d", "e", "g", "h", "i", "k", "m", "n", "o", "r", "s",
      "t", "x", "y">>

Ord(c) == CHOOSE i \in 1..Len(CharOrder) : CharOrder[i] = c

\* str.__lt__: lexicographic by code point, a proper prefix is smaller
StrLess(a, b) ==
    \/ /\ Len(a) < Len(b)
       /\ \A i \in 1..Len(a) : a[i] = b[i]
    \/ \E k \in 1..Len(a) :
          /\ k <= Len(b)
          /\ \A i \in 1..(k - 1) : a[i] = b[i]
          /\ Ord(a[k]) < Ord(b[k])

\* sorted(S) for a set of strings
RECURSIVE sorted(_)
sorted(S) ==
    IF S = {} THEN <<>>
    ELSE LET m == CHOOSE x \in S : \A y \in S \ {x} : StrLess(x, y)
         IN  <<m>> \o sorted(S \ {m})

\* all orders in which a set can be iterated
Orders(S) ==
    {s \in [1..Cardinality(S) -> S] :
        \A i, j \in 1..Cardinality(S) : i # j => s[i] # s[j]}

\* ----------------------------------------------------------- os.path
\* the working directory of the process
cwd == <<"/", "w">>

isabs(p) == Len(p) > 0 /\ p[1] = "/"

path_join(a, b) ==
    IF isabs(b) THEN b
    ELSE IF a = <<>> \/ a[Len(a)] = "/" THEN a \o b
    ELSE a \o <<"/">> \o b

RECURSIVE norm_comps(_, _, _)
norm_comps(comps, new_comps, initial_slashes) ==
    IF comps = <<>> THEN new_comps
    ELSE LET comp == Head(comps)
             n    == Len(new_comps)
         IN  IF comp = <<>> \/ comp = <<".">>
             THEN norm_comps(Tail(comps), new_comps, initial_slashes)
             ELSE IF \/ comp # <<".", ".">>
                     \/ (initial_slashes = 0 /\ n = 0)
                     \/ (n > 0 /\ new_comps[n] = <<".", ".">>)
             THEN norm_comps(Tail(comps), Append(new_comps, comp), initial_slashes)
             ELSE IF n > 0
             THEN norm_comps(Tail(comps), SubSeq(new_comps, 1, n - 1), initial_slashes)
             ELSE norm_comps(Tail(comps), new_comps, initial_slashes)

normpath(path) ==
    IF path = <<>> THEN <<".">>
    ELSE LET starts(k) == Len(path) >= k /\ \A i \in 1..k : path[i] = "/"
             initial_slashes == IF ~starts(1) THEN 0
                                ELSE IF starts(2) /\ ~starts(3) THEN 2
                                ELSE 1
             comps  == norm_comps(str_split(path, "/"), <<>>, initial_slashes)
             joined == Repeat("/", initial_slashes) \o str_join(<<"/">>, comps)
         IN  IF joined = <<>> THEN <<".">> ELSE joined

abspath(path) ==
    normpath(IF isabs(path) THEN path ELSE path_join(cwd, path))


\* ------------------------------------------------- command-line values
\* default of --cdb
DefaultCdb == <<"c", "o", "m", "p", "i", "l", "e", "_", "c", "o", "m", "m", "a", "n", "d", "s", ".", "j", "s", "o", "n">>

OtherCdb == <<"x", ".", "j", "s", "o", "n">>

\* default of --use-analyzer
DefaultClang == <<"c", "l", "a", "n", "g">>

CdbValues == {OtherCdb}

\* relative and absolute spellings; the first two name the same directory
ExcludeValues ==
    {<<".", "/", "a">>, <<"/", "w", "/", "a">>, <<"b">>}

PluginValues == {<<"p">>, <<"q">>}

EnableValues ==
    {<<"a", ",", "b">>, <<"c">>, <<"a", ",", ",">>}

DisableValues == {<<"a", ",", "b">>}

FormatFlags == {"--plist", "--plist-html", "--plist-multi-file"}

\* const= of each output-format flag
FormatConst(opt) ==
    CASE opt = "--plist"            -> "plist"
      [] opt = "--plist-html"       -> "plist-html"
      [] opt = "--plist-multi-file" -> "plist-multi-file"

Tok(opt, val) == [opt |-> opt, val |-> val]

\* the options one invocation may be given
Tokens ==
       {Tok("--cdb", v) : v \in CdbValues}
  \cup {Tok("--exclude", v) : v \in ExcludeValues}
  \cup {Tok("--load-plugin", v) : v \in PluginValues}
  \cup {Tok("--enable-checker", v) : v \in EnableValues}
  \cup {Tok("--disable-checker", v) : v \in DisableValues}
  \cup {Tok(f, <<>>) : f \in FormatFlags}
  \cup {Tok("--help-checkers", <<>>), Tok("--help-checkers-verbose", <<>>)}

\* the files that may exist
FileSystems == SUBSET {DefaultCdb, OtherCdb}

\* ------------------------------------------------------ checker catalog
CoreA == <<"c", "o", "r", "e", ".", "A">>

LongName == <<"c", "o", "r", "e", ".", "V", "e", "r", "y", "L", "o", "n", "g", "C", "h", "e", "c", "k", "e", "r", "N", "a", "m", "e", "E", "x", "c", "e", "e", "d", "i", "n", "g", "T", "h", "i", "r", "t", "y", "C", "h", "a", "r", "s">>

\* the names the analyzer may report, with their descriptions
NameUniverse ==
    <<CoreA, LongName, <<"a">>, <<"B">>, <<"a", "b">>, <<"b">>>>

Description(name) ==
    IF name = CoreA THEN <<"d", "e", "s", "c">>
    ELSE IF name = LongName THEN <<"d", "2">>
    ELSE <<"d">>

EmptyCatalog == [n \in {} |-> [description |-> <<>>, active |-> FALSE]]

\* every name -> (description, active) mapping over the first k names
Catalogs(k) ==
    UNION {{[n \in D |-> [description |-> Description(n), active |-> act[n]]] :
               act \in [D -> BOOLEAN]} :
              D \in SUBSET {NameUniverse[i] : i \in 1..k}}

\* the mapping of the documented example
ExampleCatalog ==
    [n \in {CoreA, LongName} |->
        [description |-> Description(n), active |-> (n = CoreA)]]

\* what get_checkers may return to one analyze-build invocation
SampleCatalogs ==
    {ExampleCatalog,
     [n \in {CoreA, LongName} |->
        [description |-> Description(n), active |-> (n = LongName)]]}

\* ------------------------------------------------------------- parser
\* variant: the checker flags declared with default=[]
DefaultArgs_EmptyCheckerLists ==
    [cdb                   |-> DefaultCdb,
     excludes              |-> <<>>,
     output_format         |-> "html",
     clang                 |-> DefaultClang,
     plugins               |-> None,
     enable_checker        |-> List(<<>>),
     disable_checker       |-> List(<<>>),
     help_checkers         |-> FALSE,
     help_checkers_verbose |-> FALSE]

\* the namespace parse_args starts from: every dest set to its default
DefaultArgs ==
    [cdb                   |-> DefaultCdb,
     excludes              |-> <<>>,
     output_format         |-> "html",
     clang                 |-> DefaultClang,
     plugins               |-> None,
     enable_checker        |-> None,
     disable_checker       |-> None,
     help_checkers         |-> FALSE,
     help_checkers_verbose |-> FALSE]

\* variant: the format flags added to a plain argument group
GroupConflicts_NoGroup(opt) == {}

\* members of the mutually exclusive group that conflict with flag opt
GroupConflicts(opt) ==
    IF opt \in FormatFlags THEN FormatFlags \ {opt} ELSE {}

\* the options of the command line seen so far
SeenOpts(av) == {av[i].opt : i \in 1..Len(av)}

\* variant: each occurrence stores its own pieces
AppendCommaSeparated_Replace(cur, values) == List(str_split(values, ","))

\* AppendCommaSeparated.__call__ on the attribute value cur
AppendCommaSeparated(cur, values) ==
    LET actual == IF cur.isNone THEN <<>> ELSE cur.list
    IN  List(actual \o str_split(values, ","))

\* action='append' of argparse on the attribute value cur
AppendAction(cur, value) ==
    LET items == IF cur.isNone THEN <<>> ELSE cur.list
    IN  List(Append(items, value))

\* the namespace after the action of option tok has run
TakeAction(a, tok) ==
    CASE tok.opt = "--cdb" -> [a EXCEPT !.cdb = tok.val]
      [] tok.opt = "--exclude" ->
            [a EXCEPT !.excludes = Append(a.excludes, tok.val)]
      [] tok.opt = "--load-plugin" ->
            [a EXCEPT !.plugins = AppendAction(a.plugins, tok.val)]
      [] tok.opt = "--enable-checker" ->
            [a EXCEPT !.enable_checker =
                          AppendCommaSeparated(a.enable_checker, tok.val)]
      [] tok.opt = "--disable-checker" ->
            [a EXCEPT !.disable_checker =
                          AppendCommaSeparated(a.disable_checker, tok.val)]
      [] tok.opt \in FormatFlags ->
            [a EXCEPT !.output_format = FormatConst(tok.opt)]
      [] tok.opt = "--help-checkers" -> [a EXCEPT !.help_checkers = TRUE]
      [] tok.opt = "--help-checkers-verbose" ->
            [a EXCEPT !.help_checkers_verbose = TRUE]

Call(fn, arg) == [fn |-> fn, arg |-> arg]

\* ----------------------------------------------------------- normalizer
\* variant: the absolute paths kept as a list, not passed through a set
NormalizeResults_NoDedup(a) ==
    {[a EXCEPT !.plugins = IF a.plugins.isNone THEN List(<<>>) ELSE a.plugins,
               !.excludes = [i \in 1..Len(a.excludes) |-> abspath(a.excludes[i])]]}

\* variant: plugins left as parsed
NormalizeResults_PluginsAsParsed(a) ==
    {[a EXCEPT !.excludes = order] :
        order \in Orders({abspath(a.excludes[i]) : i \in 1..Len(a.excludes)})}

\* variant: the working directory put in front of every entry
NormalizeResults_PrefixCwd(a) ==
    {[a EXCEPT !.plugins = IF a.plugins.isNone THEN List(<<>>) ELSE a.plugins,
               !.excludes = order] :
        order \in Orders({cwd \o <<"/">> \o a.excludes[i] :
                             i \in 1..Len(a.excludes)})}

\* the namespaces normalize_args_for_analyze may leave: one per iteration
\* order of the set of absolute excludes
NormalizeResults(a) ==
    LET plugins       == IF a.plugins.isNone THEN List(<<>>) ELSE a.plugins
        uniq_excludes == {abspath(a.excludes[i]) : i \in 1..Len(a.excludes)}
    IN  {[a EXCEPT !.plugins = plugins, !.excludes = order] :
            order \in Orders(uniq_excludes)}

\* ------------------------------------------------------------- printers
\* variant: the active flag not looked at
ActiveLines_All(checkers) == sorted(DOMAIN checkers)

\* the lines print_active_checkers writes
ActiveLines(checkers) ==
    sorted({name \in DOMAIN checkers : checkers[name].active})

\* threshold and column widths of print_checkers
NameWidth == 30

DescriptionColumn == 35

\* the lines print_checkers writes for one checker
CheckerLines(name, entry) ==
    LET prefix == IF entry.active THEN "+" ELSE " "
    IN  IF Len(name) > NameWidth
        THEN << <<" ", prefix, " ">> \o name,
                Repeat(" ", DescriptionColumn) \o entry.description >>
        ELSE << <<" ", prefix, " ">> \o name
                \o Repeat(" ", NameWidth - Len(name))
                \o <<" ", " ">> \o entry.description >>

RECURSIVE CheckersBody(_, _)
CheckersBody(names, checkers) ==
    IF names = <<>> THEN <<>>
    ELSE CheckerLines(Head(names), checkers[Head(names)])
         \o CheckersBody(Tail(names), checkers)

\* fixed lines of the verbose listing (kept as whole strings)
HeaderLine == <<"available checkers:">>

NoteLine == <<"NOTE: \"+\" indicates that an analysis is enabled by default.">>

\* the lines print_checkers writes
VerboseLines(checkers) ==
    <<<<>>, HeaderLine, <<>>>>
    \o CheckersBody(sorted(DOMAIN checkers), checkers)
    \o <<<<>>, NoteLine, <<>>>>

\* ------------------------------------------------ analyze-build pipeline
\* exit status of parser.error
UsageStatus == 2

Init ==
    /\ argv = <<>>
    /\ args = DefaultArgs
    /\ fs \in FileSystems
    /\ pc = "parse"
    /\ status = -1
    /\ stdout = <<>>
    /\ stderr = <<>>
    /\ trace = <<>>
    /\ catalog = EmptyCatalog

\* parser.parse_args() consuming one more option of the command line
ParseOption ==
    /\ pc = "parse"
    /\ Len(argv) < MaxArgs
    /\ \E tok \in Tokens :
          /\ argv' = Append(argv, tok)
          /\ IF GroupConflicts(tok.opt) \cap SeenOpts(argv) # {}
             THEN /\ stderr' = Append(stderr, "not allowed with argument")
                  /\ status' = UsageStatus
                  /\ pc' = "exit"
                  /\ args' = args
             ELSE /\ args' = TakeAction(args, tok)
                  /\ UNCHANGED <<stderr, status, pc>>
    /\ UNCHANGED <<fs, stdout, trace, catalog>>

\* parse_args() returns; reconfigure_logging and logging.debug
ParseDone ==
    /\ pc = "parse"
    /\ pc' = "normalize"
    /\ UNCHANGED <<argv, args, fs, status, stdout, stderr, trace, catalog>>

\* normalize_args_for_analyze(args)
Normalize ==
    /\ pc = "normalize"
    /\ args' \in NormalizeResults(args)
    /\ trace' = Append(trace, Call("normalize_args_for_analyze", None))
    /\ pc' = "validate"
    /\ UNCHANGED <<argv, fs, status, stdout, stderr, catalog>>

\* variant: the compilation database looked for first
ValidateBranch_CdbFirst(a, files) ==
    IF a.cdb \notin files THEN "error"
    ELSE IF a.help_checkers_verbose THEN "print_checkers"
    ELSE IF a.help_checkers THEN "print_active_checkers"
    ELSE "accept"

\* variant: the default database name looked for, not the one given
ValidateBranch_DefaultCdb(a, files) ==
    IF a.help_checkers_verbose THEN "print_checkers"
    ELSE IF a.help_checkers THEN "print_active_checkers"
    ELSE IF DefaultCdb \notin files THEN "error"
    ELSE "accept"

\* the branch validate_args_for_analyze takes
ValidateBranch(a, files) ==
    IF a.help_checkers_verbose THEN "print_checkers"
    ELSE IF a.help_checkers THEN "print_active_checkers"
    ELSE IF a.cdb \notin files THEN "error"
    ELSE "accept"

\* what validate_args_for_analyze does on the branch it takes
ValidateEffects ==
    LET entered == Append(trace, Call("validate_args_for_analyze", None))
        branch  == ValidateBranch(args, fs)
    IN  IF branch \in {"print_checkers", "print_active_checkers"}
        THEN \E c \in SampleCatalogs :
                /\ catalog' = c
                /\ stdout' = stdout \o (IF branch = "print_checkers"
                                        THEN VerboseLines(c)
                                        ELSE ActiveLines(c))
                /\ trace' = entered \o <<Call("get_checkers", args.plugins),
                                         Call(branch, None),
                                         Call("parser.exit", None)>>
                /\ status' = 0
                /\ pc' = "exit"
                /\ UNCHANGED stderr
        ELSE IF branch = "error"
        THEN /\ trace' = entered \o <<Call("os.path.exists", None),
                                      Call("parser.error", None)>>
             /\ stderr' = Append(stderr, "compilation database is missing")
             /\ status' = UsageStatus
             /\ pc' = "exit"
             /\ UNCHANGED <<stdout, catalog>>
        ELSE /\ trace' = Append(entered, Call("os.path.exists", None))
             /\ pc' = "validated"
             /\ UNCHANGED <<stdout, stderr, status, catalog>>

\* variant: validation rewrites the database path as an absolute one
Validate_AbsCdb ==
    /\ pc = "validate"
    /\ ValidateEffects
    /\ args' = [args EXCEPT !.cdb = abspath(args.cdb)]
    /\ UNCHANGED <<argv, fs>>

\* validate_args_for_analyze(parser, args)
Validate ==
    /\ pc = "validate"
    /\ ValidateEffects
    /\ UNCHANGED <<argv, args, fs>>

\* logging.debug and return args
Return ==
    /\ pc = "validated"
    /\ pc' = "returned"
    /\ UNCHANGED <<argv, args, fs, status, stdout, stderr, trace, catalog>>

Next == ParseOption \/ ParseDone \/ Normalize \/ Validate \/ Return

Spec == Init /\ [][Next]_vars

\* ----------------------------------------- the printers on any catalog
InitPrinter ==
    /\ catalog \in Catalogs(MaxCheckers)
    /\ pc = "print"
    /\ argv = <<>>
    /\ args = DefaultArgs
    /\ fs = {}
    /\ status = -1
    /\ stdout = <<>>
    /\ stderr = <<>>
    /\ trace = <<>>

\* print_active_checkers(checkers)
PrintActive ==
    /\ pc = "print"
    /\ stdout' = stdout \o ActiveLines(catalog)
    /\ trace' = Append(trace, Call("print_active_checkers", None))
    /\ pc' = "printed"
    /\ UNCHANGED <<argv, args, fs, status, stderr, catalog>>

\* print_checkers(checkers)
PrintVerbose ==
    /\ pc = "print"
    /\ stdout' = stdout \o VerboseLines(catalog)
    /\ trace' = Append(trace, Call("print_checkers", None))
    /\ pc' = "printed"
    /\ UNCHANGED <<argv, args, fs, status, stderr, catalog>>

NextPrinter == PrintActive \/ PrintVerbose

SpecPrinter == InitPrinter /\ [][NextPrinter]_vars

\* ------------------------------- the normalizer applied more than once
\* exclude lists the parser can produce
RECURSIVE ExcludeLists(_)
ExcludeLists(n) ==
    IF n = 0 THEN {<<>>}
    ELSE ExcludeLists(n - 1)
         \cup {Append(l, v) : l \in ExcludeLists(n - 1), v \in ExcludeValues}

ParsedPlugins == {None, List(<<<<"p">>>>), List(<<<<"q">>, <<"p">>>>)}

InitNormalizer ==
    /\ \E e \in ExcludeLists(MaxExcludes), p \in ParsedPlugins :
          args = [DefaultArgs EXCEPT !.excludes = e, !.plugins = p]
    /\ pc = "normalize"
    /\ argv = <<>>
    /\ fs = {}
    /\ status = -1
    /\ stdout = <<>>
    /\ stderr = <<>>
    /\ trace = <<>>
    /\ catalog = EmptyCatalog

\* normalize_args_for_analyze(args), called on what an earlier call left
Renormalize ==
    /\ pc \in {"normalize", "normalized"}
    /\ args' \in NormalizeResults(args)
    /\ trace' = Append(trace, Call("normalize_args_for_analyze", None))
    /\ pc' = IF pc = "normalize" THEN "normalized" ELSE "renormalized"
    /\ UNCHANGED <<argv, fs, status, stdout, stderr, catalog>>

NextNormalizer == Renormalize

SpecNormalizer == InitNormalizer /\ [][NextNormalizer]_vars

\* =============================================================== claims
\* names of the calls made so far, in order
CallNames == [i \in 1..Len(trace) |-> trace[i].fn]

Called(fn) == \E i \in 1..Len(trace) : trace[i].fn = fn

\* the calls made from inside validate_args_for_analyze
ValidateCalls ==
    LET i == CHOOSE k \in 1..Len(trace) :
                 trace[k].fn = "validate_args_for_analyze"
    IN  SubSeq(CallNames, i + 1, Len(trace))

\* values given to option opt on the command line av, in order of occurrence
RECURSIVE OptValues(_, _)
OptValues(av, opt) ==
    IF av = <<>> THEN <<>>
    ELSE (IF Head(av).opt = opt THEN <<Head(av).val>> ELSE <<>>)
         \o OptValues(Tail(av), opt)

\* concatenation of the comma-separated pieces of each value
RECURSIVE ConcatPieces(_)
ConcatPieces(vals) ==
    IF vals = <<>> THEN <<>>
    ELSE str_split(Head(vals), ",") \o ConcatPieces(Tail(vals))

Range(seq) == {seq[i] : i \in 1..Len(seq)}

\* C1: validation decides in strict order: with help_checkers_verbose set
\* the verbose printer runs and the process exits 0 whatever help_checkers
\* and the compilation database are; otherwise with help_checkers set the
\* active-only printer runs and the process exits 0 whatever the database
\* is; the existence of the database is looked at only with neither flag.
C1_ValidationOrder ==
    Called("validate_args_for_analyze") =>
        /\ args.help_checkers_verbose =>
              /\ ValidateCalls = <<"get_checkers", "print_checkers", "parser.exit">>
              /\ stdout = VerboseLines(catalog)
              /\ pc = "exit" /\ status = 0
        /\ (~args.help_checkers_verbose /\ args.help_checkers) =>
              /\ ValidateCalls =
                    <<"get_checkers", "print_active_checkers", "parser.exit">>
              /\ stdout = ActiveLines(catalog)
              /\ pc = "exit" /\ status = 0
        /\ Called("os.path.exists") =>
              (~args.help_checkers_verbose /\ ~args.help_checkers)

\* both help flags set and the database missing: verbose listing, status 0
C1_Witness ==
    /\ Called("validate_args_for_analyze")
    /\ args.help_checkers_verbose /\ args.help_checkers
    /\ args.cdb \notin fs
    /\ Called("print_checkers") /\ status = 0

\* C2: with a compilation database that does not exist and no help flag,
\* validation ends the process with a non-zero status and the message
\* 'compilation database is missing'; the checker catalog and the printers
\* are not called and the arguments are not returned.
C2_MissingCdbIsUsageError ==
    ( /\ Called("validate_args_for_analyze")
      /\ ~args.help_checkers_verbose /\ ~args.help_checkers
      /\ args.cdb \notin fs ) =>
        /\ pc = "exit" /\ status # 0 /\ status # -1
        /\ stderr = <<"compilation database is missing">>
        /\ ValidateCalls = <<"os.path.exists", "parser.error">>
        /\ ~Called("get_checkers")
        /\ ~Called("print_checkers") /\ ~Called("print_active_checkers")
        /\ stdout = <<>>

C2_Witness ==
    /\ Called("parser.error")
    /\ ~args.help_checkers_verbose /\ ~args.help_checkers
    /\ args.cdb = OtherCdb /\ fs = {DefaultCdb}
    /\ status = UsageStatus

\* C3: after any occurrences of --enable-checker (--disable-checker) the
\* field is the concatenation, in order of occurrence, of the values split
\* on commas: nothing replaced or reordered, duplicates and empty pieces
\* kept; '--enable-checker a,b --enable-checker c' gives [a, b, c].
C3_Accumulation ==
    /\ \A opt \in {"--enable-checker", "--disable-checker"} :
          LET vals  == OptValues(argv, opt)
              field == IF opt = "--enable-checker" THEN args.enable_checker
                       ELSE args.disable_checker
          IN  vals # <<>> => field = List(ConcatPieces(vals))
    /\ OptValues(argv, "--enable-checker") = << <<"a", ",", "b">>, <<"c">> >>
          => args.enable_checker = List(<< <<"a">>, <<"b">>, <<"c">> >>)
    /\ OptValues(argv, "--enable-checker") = << <<"a", ",", ",">> >>
          => args.enable_checker = List(<< <<"a">>, <<>>, <<>> >>)

\* a,b then c, then a,b again: six entries with the duplicates kept
C3_Witness ==
    /\ OptValues(argv, "--enable-checker")
          = << <<"a", ",", "b">>, <<"c">>, <<"a", ",", "b">> >>
    /\ args.enable_checker.list
          = << <<"a">>, <<"b">>, <<"c">>, <<"a">>, <<"b">> >>

\* C4: after normalisation excludes holds only absolute paths, no path
\* twice, and as many entries as the --exclude values have distinct
\* absolute resolutions.
C4_ExcludesAbsoluteUnique ==
    Called("normalize_args_for_analyze") =>
        LET given == OptValues(argv, "--exclude")
        IN  /\ \A i \in 1..Len(args.excludes) :
                  /\ isabs(args.excludes[i])
                  /\ \A j \in 1..Len(args.excludes) :
                        i # j => args.excludes[i] # args.excludes[j]
            /\ Len(args.excludes) = Cardinality({abspath(v) : v \in Range(given)})
            /\ Range(given) = {<<".", "/", "a">>, <<"/", "w", "/", "a">>}
                  => args.excludes = << <<"/", "w", "/", "a">> >>
            /\ <<"b">> \in Range(given)
                  => <<"/", "w", "/", "b">> \in Range(args.excludes)

\* ./a, /w/a and b given: two entries are left
C4_Witness ==
    /\ Called("normalize_args_for_analyze")
    /\ Range(OptValues(argv, "--exclude")) = ExcludeValues
    /\ Len(args.excludes) = 2

\* C5: without --load-plugin normalisation leaves plugins the empty list;
\* from normalisation on, also when the checker catalog is asked, plugins
\* is a list and never None; a list accumulated by --load-plugin is left
\* as it was.
C5_PluginsNeverNone ==
    /\ Called("normalize_args_for_analyze") =>
          args.plugins = List(OptValues(argv, "--load-plugin"))
    /\ \A i \in 1..Len(trace) :
          trace[i].fn = "get_checkers" =>
             /\ ~trace[i].arg.isNone
             /\ trace[i].arg.list = OptValues(argv, "--load-plugin")

\* the catalog is asked with the empty plugin list
C5_Witness ==
    /\ Called("get_checkers")
    /\ OptValues(argv, "--load-plugin") = <<>>
    /\ args.plugins = List(<<>>)

\* C6 as stated: a second run of the normaliser changes no field.
C6_Idempotent ==
    [][pc = "normalized" => args' = args]_vars

\* C6 as amended: a second run of the normaliser leaves every field but
\* excludes as it was, and leaves excludes with the same paths and the same
\* length; only their order may differ.
C6_IdempotentUpToOrder ==
    [][pc = "normalized" =>
          /\ [args' EXCEPT !.excludes = <<>>] = [args EXCEPT !.excludes = <<>>]
          /\ Range(args'.excludes) = Range(args.excludes)
          /\ Len(args'.excludes) = Len(args.excludes)]_vars

\* the normaliser has run twice on two or more distinct directories
C6_Witness ==
    /\ pc = "renormalized"
    /\ Len(trace) = 2
    /\ Len(args.excludes) >= 2

\* C7: output_format is always one of the four formats: html without a
\* format flag, the flag's constant with one; a command line with two
\* different format flags is rejected as a usage error.
C7_OneOutputFormat ==
    LET fmts == SeenOpts(argv) \cap FormatFlags
    IN  /\ args.output_format \in {"html", "plist", "plist-html", "plist-multi-file"}
        /\ fmts = {} => args.output_format = "html"
        /\ Cardinality(fmts) = 1 =>
              \A f \in fmts : args.output_format = FormatConst(f)
        /\ Cardinality(fmts) > 1 =>
              /\ pc = "exit" /\ status = UsageStatus
              /\ trace = <<>>

\* --plist then --plist-html: rejected, the format not altered
C7_Witness ==
    /\ Cardinality(SeenOpts(argv) \cap FormatFlags) = 2
    /\ argv[1].opt = "--plist"
    /\ args.output_format = "plist"
    /\ pc = "exit"

\* C8 as stated: a checker flag that never occurs leaves an empty list in
\* the accepted arguments.
C8_DefaultEmptyList ==
    pc = "returned" =>
        /\ OptValues(argv, "--enable-checker") = <<>>
              => args.enable_checker = List(<<>>)
        /\ OptValues(argv, "--disable-checker") = <<>>
              => args.disable_checker = List(<<>>)

\* C8 as amended: a checker flag that never occurs leaves None in the
\* accepted arguments, not an empty list; the field is a list, and not an
\* empty one, once the flag has occurred.
C8_DefaultNone ==
    pc = "returned" =>
        /\ args.enable_checker.isNone
              <=> OptValues(argv, "--enable-checker") = <<>>
        /\ args.disable_checker.isNone
              <=> OptValues(argv, "--disable-checker") = <<>>
        /\ args.enable_checker # List(<<>>)
        /\ args.disable_checker # List(<<>>)

\* accepted with one checker flag given and the other not
C8_Witness ==
    /\ pc = "returned"
    /\ OptValues(argv, "--enable-checker") = <<>>
    /\ OptValues(argv, "--disable-checker") # <<>>
    /\ args.enable_checker = None

\* C9: print_active_checkers writes exactly the names whose active flag is
\* set, each once, one per line, ascending, with no description and no
\* inactive name; for the documented example the single line core.A.
C9_ActiveOnly ==
    (pc = "printed" /\ Called("print_active_checkers")) =>
        LET active == {n \in DOMAIN catalog : catalog[n].active}
        IN  /\ Range(stdout) = active
            /\ Len(stdout) = Cardinality(active)
            /\ \A i, j \in 1..Len(stdout) :
                  i < j => StrLess(stdout[i], stdout[j])
            /\ catalog = ExampleCatalog => stdout = <<CoreA>>
            /\ {<<"B">>, <<"a">>} \subseteq active =>
                  (stdout[1] = <<"B">> /\ stdout[2] = <<"a">>)

\* two active names printed and one inactive name left out
C9_Witness ==
    /\ pc = "printed" /\ Called("print_active_checkers")
    /\ Len(stdout) = 2
    /\ \E n \in DOMAIN catalog : ~catalog[n].active

\* C10: validation changes no field of the arguments on any of its paths,
\* what is returned is what normalisation left, and normalisation has run
\* exactly once, before validation.
C10_OnlyNormalizerMutates ==
    [][/\ pc \in {"validate", "validated"} => args' = args
       /\ pc' \in {"validate", "validated", "returned"} =>
             /\ Cardinality({i \in 1..Len(trace') :
                   trace'[i].fn = "normalize_args_for_analyze"}) = 1
             /\ trace'[1].fn = "normalize_args_for_analyze"]_vars

\* arguments returned after normalisation changed plugins and excludes
C10_Witness ==
    /\ pc = "returned"
    /\ args.plugins = List(<<>>)
    /\ args.excludes = << <<"/", "w", "/", "b">> >>
    /\ args.cdb = OtherCdb

====
